---- MODULE Spec2Model ----
(***************************************************************************)
(* A model of the pyreact-fusion backend: the engine factory and the       *)
(* module-level engine handle (backend/database/connection.py), the        *)
(* per-request get_database dependency, the route handlers                 *)
(* (backend/api/routes.py) and the startup hook (backend/main.py).         *)
(*                                                                         *)
(* One storage server is shared by NumProcs server processes.  Every       *)
(* process imports the application (building its own engine handle and     *)
(* pool), runs the startup hook and then serves requests.  Route handlers  *)
(* are `async def` functions whose database calls are synchronous, so      *)
(* inside one process a handler body runs without interleaving with other  *)
(* handler bodies of that process; statements of different processes       *)
(* interleave at the grain of one storage round trip.                      *)
(***************************************************************************)
EXTENDS Integers, Sequences, FiniteSets, TLC

(* ------------------------------ bounds -------------------------------- *)

NumProcs == 2
NumReqs == 2
MaxUsers == 2
OidLen == 1

Procs == 1..NumProcs
Reqs == 1..NumReqs

\* The processes that may serve request slot r: slot 1 is served by process
\* 1, slot 2 by process 1 or 2, and so on.
ProcChoices(r) == {p \in Procs : p <= r}

(* --------------------------- configuration ---------------------------- *)

\* Values of settings.database_type the model draws from.
DbTypeStrings ==
    {"sqlite", "postgresql", "mysql", "mongodb", "SQLite", "MongoDB", "oracle", ""}

\* str.lower() on the strings above.
Lower(s) ==
    CASE s = "SQLite" -> "sqlite"
      [] s = "MongoDB" -> "mongodb"
      [] OTHER -> s

\* class DatabaseType(str, Enum)
SQLITE == "sqlite"
POSTGRESQL == "postgresql"
MYSQL == "mysql"
MONGODB == "mongodb"
DatabaseType == {SQLITE, POSTGRESQL, MYSQL, MONGODB}

\* Defaults of class Settings that the factory reads.
PostgresHost == "localhost"
PostgresPort == 5432
PostgresDb == "pyreact_fusion"
PostgresUser == "postgres"
PostgresPassword == "postgres"
MysqlHost == "localhost"
MysqlPort == 3306
MysqlDb == "pyreact_fusion"
MysqlUser == "root"
MysqlPassword == "root"
MongodbHost == "localhost"
MongodbPort == 27017
MongodbDb == "pyreact_fusion"

\* A file path is the sequence of its components: ./data/app.db is
\* <<".", "data", "app.db">>.
DefaultSqlitePath == <<".", "data", "app.db">>
SqlitePaths == {DefaultSqlitePath, <<"app.db">>, <<".", "var", "db", "app.db">>}

\* The settings the factory reads; never changed after load.
DefaultSettings ==
    [database_type |-> "sqlite", sqlite_db_path |-> DefaultSqlitePath,
     mongodb_user |-> "", mongodb_password |-> ""]

SettingsSpace ==
    [database_type : DbTypeStrings, sqlite_db_path : SqlitePaths,
     mongodb_user : {"", "admin"}, mongodb_password : {"", "secret"}]

\* The sources the settings are loaded from.  env: the value of
\* DATABASE_TYPE in the environment ("None": not set).  file:
\* app_config.json: whether it exists, whether it parses as JSON, and the
\* dictionary it holds (a function from its keys).
NoAppConfigFile == [exists |-> FALSE, parses |-> FALSE, json |-> <<>>]
AppConfigFile(json) == [exists |-> TRUE, parses |-> TRUE, json |-> json]

\* load_app_config(): the dictionary, or None when the file is missing or
\* json.load raises.
load_app_config(file) ==
    IF ~file.exists THEN [none |-> TRUE, value |-> <<>>]
    ELSE IF ~file.parses THEN [none |-> TRUE, value |-> <<>>]
    ELSE [none |-> FALSE, value |-> file.json]

\* Settings(): database_type from DATABASE_TYPE, default "sqlite"; the other
\* fields at their defaults.
Settings(env) ==
    [DefaultSettings EXCEPT !.database_type = IF env = "None" THEN "sqlite" ELSE env]

\* _apply_app_config that leaves database_type as the environment gave it.
apply_app_config_without_override(settings_instance, app_config) ==
    settings_instance

\* _apply_app_config(settings_instance): `if app_config:` is false for None
\* and for an empty dictionary; app_config["database"].get("type", current).
apply_app_config(settings_instance, app_config) ==
    IF ~app_config.none /\ DOMAIN app_config.value # {}
       /\ "database" \in DOMAIN app_config.value
    THEN [settings_instance EXCEPT !.database_type =
            IF "type" \in DOMAIN app_config.value["database"]
            THEN app_config.value["database"]["type"]
            ELSE @]
    ELSE settings_instance

\* The configurations the model loads from.
ConfigSpace ==
    [env : {"None", "postgresql", "MongoDB"},
     file : {NoAppConfigFile,
             [exists |-> TRUE, parses |-> FALSE, json |-> <<>>],
             AppConfigFile(<<>>),
             AppConfigFile([k \in {"server"} |-> <<>>]),
             AppConfigFile([k \in {"database"} |-> <<>>]),
             AppConfigFile([k \in {"database", "server"} |->
                               IF k = "database" THEN [t \in {"type"} |-> "mysql"]
                               ELSE <<>>])}
       \cup {AppConfigFile([k \in {"database"} |-> [t \in {"type"} |-> kind]]) :
                kind \in {"sqlite", "mongodb", "oracle"}}]

(* -------------------------- engine factory ---------------------------- *)

NoEngine == [family |-> "none"]

\* os.path.dirname(db_path) if os.path.dirname(db_path) else "."
DirOf(path) ==
    IF Len(path) > 1 THEN SubSeq(path, 1, Len(path) - 1) ELSE <<".">>

\* create_sqlite_engine without its os.makedirs call.
MakeNoDirs(d) == {}

\* os.makedirs(d, exist_ok=True): d and every missing ancestor.
MakeDirs(d) == {SubSeq(d, 1, n) : n \in 1..Len(d)}

create_sqlite_engine(db_path) ==
    [family |-> "relational", kind |-> SQLITE,
     url |-> <<"sqlite:///", db_path>>,
     check_same_thread |-> FALSE]

create_postgresql_engine(host, port, database, user, password) ==
    [family |-> "relational", kind |-> POSTGRESQL,
     url |-> <<"postgresql://", user, ":", password, "@", host, ":", port, "/", database>>,
     pool_size |-> 5, max_overflow |-> 10, pool_pre_ping |-> TRUE]

create_mysql_engine(host, port, database, user, password) ==
    [family |-> "relational", kind |-> MYSQL,
     url |-> <<"mysql+pymysql://", user, ":", password, "@", host, ":", port, "/", database>>,
     pool_size |-> 5, max_overflow |-> 10, pool_pre_ping |-> TRUE]

\* create_mongodb_client embedding credentials when either one is given.
create_mongodb_client_either_credential(host, port, database, user, password) ==
    [family |-> "document", kind |-> MONGODB,
     url |-> IF user # "" \/ password # ""
             THEN <<"mongodb://", user, ":", password, "@", host, ":", port, "/", database>>
             ELSE <<"mongodb://", host, ":", port, "/", database>>,
     database |-> database]

\* user and password arrive as None when the setting is empty.
create_mongodb_client(host, port, database, user, password) ==
    [family |-> "document", kind |-> MONGODB,
     url |-> IF user # "" /\ password # ""
             THEN <<"mongodb://", user, ":", password, "@", host, ":", port, "/", database>>
             ELSE <<"mongodb://", host, ":", port, "/", database>>,
     database |-> database]

\* create_engine with a default branch: an unknown kind falls back to SQLite.
create_engine_default_sqlite(s) ==
    LET db_type == Lower(s.database_type) IN
    IF db_type = POSTGRESQL THEN
        [raised |-> FALSE,
         handles |-> <<create_postgresql_engine(PostgresHost, PostgresPort,
                          PostgresDb, PostgresUser, PostgresPassword)>>,
         made |-> {}]
    ELSE IF db_type = MYSQL THEN
        [raised |-> FALSE,
         handles |-> <<create_mysql_engine(MysqlHost, MysqlPort, MysqlDb,
                          MysqlUser, MysqlPassword)>>,
         made |-> {}]
    ELSE IF db_type = MONGODB THEN
        [raised |-> FALSE,
         handles |-> <<create_mongodb_client(MongodbHost, MongodbPort, MongodbDb,
                          s.mongodb_user, s.mongodb_password)>>,
         made |-> {}]
    ELSE
        [raised |-> FALSE,
         handles |-> <<create_sqlite_engine(s.sqlite_db_path)>>,
         made |-> MakeDirs(DirOf(s.sqlite_db_path))]

\* create_engine that returns None for an unknown kind instead of raising.
create_engine_returns_none(s) ==
    LET db_type == Lower(s.database_type) IN
    IF db_type = SQLITE THEN
        [raised |-> FALSE,
         handles |-> <<create_sqlite_engine(s.sqlite_db_path)>>,
         made |-> MakeDirs(DirOf(s.sqlite_db_path))]
    ELSE IF db_type = POSTGRESQL THEN
        [raised |-> FALSE,
         handles |-> <<create_postgresql_engine(PostgresHost, PostgresPort,
                          PostgresDb, PostgresUser, PostgresPassword)>>,
         made |-> {}]
    ELSE IF db_type = MYSQL THEN
        [raised |-> FALSE,
         handles |-> <<create_mysql_engine(MysqlHost, MysqlPort, MysqlDb,
                          MysqlUser, MysqlPassword)>>,
         made |-> {}]
    ELSE IF db_type = MONGODB THEN
        [raised |-> FALSE,
         handles |-> <<create_mongodb_client(MongodbHost, MongodbPort, MongodbDb,
                          s.mongodb_user, s.mongodb_password)>>,
         made |-> {}]
    ELSE
        [raised |-> FALSE, handles |-> <<NoEngine>>, made |-> {}]

\* DatabaseFactory.create_engine: the outcome of one call under settings s.
\* raised: ValueError was raised; handles: the handles constructed during
\* the call, in order; made: directories the call created.
create_engine(s) ==
    LET db_type == Lower(s.database_type) IN
    IF db_type = SQLITE THEN
        [raised |-> FALSE,
         handles |-> <<create_sqlite_engine(s.sqlite_db_path)>>,
         made |-> MakeDirs(DirOf(s.sqlite_db_path))]
    ELSE IF db_type = POSTGRESQL THEN
        [raised |-> FALSE,
         handles |-> <<create_postgresql_engine(PostgresHost, PostgresPort,
                          PostgresDb, PostgresUser, PostgresPassword)>>,
         made |-> {}]
    ELSE IF db_type = MYSQL THEN
        [raised |-> FALSE,
         handles |-> <<create_mysql_engine(MysqlHost, MysqlPort, MysqlDb,
                          MysqlUser, MysqlPassword)>>,
         made |-> {}]
    ELSE IF db_type = MONGODB THEN
        [raised |-> FALSE,
         handles |-> <<create_mongodb_client(MongodbHost, MongodbPort, MongodbDb,
                          s.mongodb_user, s.mongodb_password)>>,
         made |-> {}]
    ELSE
        [raised |-> TRUE, handles |-> <<>>, made |-> {}]

(* ------------------------------ state --------------------------------- *)

VARIABLES
    settings,     \* backend.config.settings, as loaded
    dbUp,         \* whether the configured storage server accepts connections
    dirs,         \* directories that exist on the file system
    phase,        \* per process: "start", "init", "imported", "serving", "crashed"
    engine,       \* per process: the module-level db_engine
    constructed,  \* per process: handles the factory constructed
    startupLog,   \* per process: what startup_event logged about the tables
    pool,         \* per process: the connections checked out of the engine's pool
    users,        \* the stored user records (table `users` / collection users)
    nextId,       \* the relational autoincrement counter
    proc,         \* per request: the process that serves it (0: none)
    pc,           \* per request: "idle", "ready", "checked", "exiting"
    route,        \* per request: the route it addresses
    inp,          \* per request: its input
    handles,      \* per request: what its live get_database generators yielded
    conn,         \* per request: the pooled connection its session holds (0: none)
    attempts,     \* per request: inserts it has attempted
    resp,         \* per request: the response it has produced
    utcnow,       \* datetime.utcnow(), in minutes
    call,         \* the last call of an AuthService method, with its outcome
    config,       \* what the settings are loaded from: DATABASE_TYPE, app_config.json
    background    \* per process: connections held by requests other than Reqs

vars ==
    <<settings, dbUp, dirs, phase, engine, constructed, startupLog, pool, users,
      nextId, proc, pc, route, inp, handles, conn, attempts, resp, utcnow, call,
      config, background>>

authVars == <<utcnow, call>>
loadVars == <<config, background>>

procVars == <<phase, engine, constructed, startupLog>>
reqVars == <<proc, pc, route, inp, handles, conn, attempts, resp>>

(* ------------------------------ values -------------------------------- *)

\* A password is the sequence of its bytes (none of them NUL).
PasswordBytes == {1, 2}
Passwords == {<<1>>, <<2>>}
None == "None"

\* JSON values of a claims dictionary, tagged with their Python type.
JsonStr(s) == [t |-> "str", v |-> s]
JsonInt(n) == [t |-> "int", v |-> n]
DateTime(n) == [t |-> "datetime", v |-> n]

\* A dictionary is a function from its keys; {} is the empty one.
EmptyDict == <<>>
\* dict.update
DictUpdate(d, e) ==
    [k \in DOMAIN d \cup DOMAIN e |-> IF k \in DOMAIN e THEN e[k] ELSE d[k]]

\* Settings.jwt_secret_key, jwt_access_token_expire_minutes
JwtSecretKey == "your-secret-key-change-in-production"
JwtAccessTokenExpireMinutes == 30

\* The bearer string of a request: nothing, text that is no JWT, or a JWT:
\* its claims and the key its signature was made with.
AbsentToken == [kind |-> "absent", claims |-> EmptyDict, key |-> ""]
BadToken == [kind |-> "garbage", claims |-> EmptyDict, key |-> ""]

NoInput ==
    [email |-> "-", username |-> "-", password |-> <<>>, full_name |-> None,
     token |-> AbsentToken, extra |-> EmptyDict]
NoBody == [none |-> TRUE]
NoResp == [status |-> 0, detail |-> "-", body |-> NoBody]

\* Request r is served by process ProcOf(r).
ProcOf(r) == proc[r]

Routes == {"register", "login", "me", "users", "health"}
\* Routes whose signature, or whose get_current_user dependency, declares
\* Depends(get_database).
DbRoutes == {"register", "login", "me", "users"}

\* isinstance(db_engine, Engine)
IsEngine(e) == e.family = "relational"
\* isinstance(db, Session) and User is not None (models.User always imports)
IsSession(h) == h.family = "session"
\* isinstance(db, MongoDatabase)
IsMongoDatabase(h) == h.family = "document"

Min(S) == CHOOSE x \in S : \A y \in S : x <= y

(* ---------------------------- AuthService ----------------------------- *)

\* pwd_context = CryptContext(schemes=["bcrypt"]): bcrypt reads the first 72
\* bytes of the secret; passlib hands it the secret cut to that size.
BcryptMaxBytes == 72
Truncate(secret) ==
    IF Len(secret) > BcryptMaxBytes THEN SubSeq(secret, 1, BcryptMaxBytes) ELSE secret

\* The "$2b$" identifier every bcrypt hash string starts with.
BcryptIdent == <<36, 50, 98, 36>>

\* The hash string bcrypt gives for a secret: the identifier followed by the
\* digest, which is decided by the bytes bcrypt reads (they stand for it
\* here; the salt, which verify takes from the hash string, is left out).
bcrypt(secret) == BcryptIdent \o Truncate(secret)

\* pwd_context.hash
get_password_hash(password) == bcrypt(password)
\* pwd_context.verify: the hash of the candidate equals the stored hash.
verify_password(plain_password, hashed_password) ==
    bcrypt(plain_password) = hashed_password
\* jose.jwt.encode: datetime values of the time claims become integer
\* timestamps; the claims are signed with the key.
jwt_encode(claims, key) ==
    [kind |-> "jwt",
     claims |-> [k \in DOMAIN claims |->
                   IF k \in {"exp", "iat", "nbf"} /\ claims[k].t = "datetime"
                   THEN JsonInt(claims[k].v) ELSE claims[k]],
     key |-> key]

\* jose.jwt.decode at time now: the claims, or the JWTError it raises (error
\* is "" when it raises nothing).  JWTClaimsError and ExpiredSignatureError
\* are subclasses of JWTError.
jwt_decode(token, key, now) ==
    IF token.kind # "jwt" THEN [error |-> "JWTError", claims |-> EmptyDict]
    ELSE IF token.key # key THEN [error |-> "JWTError", claims |-> EmptyDict]
    ELSE IF "exp" \in DOMAIN token.claims /\ token.claims["exp"].t # "int"
    THEN [error |-> "JWTClaimsError", claims |-> EmptyDict]
    ELSE IF "exp" \in DOMAIN token.claims /\ token.claims["exp"].v < now
    THEN [error |-> "ExpiredSignatureError", claims |-> EmptyDict]
    ELSE IF "sub" \in DOMAIN token.claims /\ token.claims["sub"].t # "str"
    THEN [error |-> "JWTClaimsError", claims |-> EmptyDict]
    ELSE [error |-> "", claims |-> token.claims]

\* create_access_token that updates the caller's dictionary in place.
create_access_token_in_place(data, now) ==
    LET expire == now + JwtAccessTokenExpireMinutes
        to_encode == DictUpdate(data, [k \in {"exp"} |-> DateTime(expire)])
    IN [token |-> jwt_encode(to_encode, JwtSecretKey), data |-> to_encode]

\* create_access_token(data) called at time now (expires_delta is never
\* passed): the token it returns and the caller's dictionary after the call.
create_access_token(data, now) ==
    LET to_encode == data
        expire == now + JwtAccessTokenExpireMinutes
    IN [token |-> jwt_encode(DictUpdate(to_encode, [k \in {"exp"} |-> DateTime(expire)]),
                             JwtSecretKey),
        data |-> data]

\* decode_access_token without its try/except.
decode_access_token_uncaught(token, now) ==
    LET res == jwt_decode(token, JwtSecretKey, now) IN
    [raised |-> res.error # "", valid |-> res.error = "", claims |-> res.claims]

\* decode_access_token at time now: the payload, or None (valid = FALSE)
\* when jwt.decode raised a JWTError; raised: an exception left the call.
decode_access_token(token, now) ==
    LET res == jwt_decode(token, JwtSecretKey, now) IN
    [raised |-> FALSE, valid |-> res.error = "", claims |-> res.claims]

\* payload.get("sub")
Sub(payload) ==
    IF "sub" \in DOMAIN payload.claims THEN payload.claims["sub"].v ELSE None

\* No AuthService method has been called.
NoCall ==
    [op |-> "none", at |-> 0, data |-> EmptyDict, after |-> EmptyDict,
     token |-> AbsentToken,
     payload |-> [raised |-> FALSE, valid |-> FALSE, claims |-> EmptyDict],
     password |-> <<>>, candidate |-> <<>>, hashed |-> <<>>, verified |-> FALSE]

\* The time at which the requests of the model are served, and the bearer
\* strings they carry: a token login issued for "a" then, one it issued
\* long before, a JWT without sub, text that is no JWT, or nothing.
ServeTime == 31
Tokens ==
    {AbsentToken, BadToken,
     create_access_token([k \in {"sub"} |-> JsonStr("a")], ServeTime).token,
     create_access_token([k \in {"sub"} |-> JsonStr("a")], 0).token,
     create_access_token(EmptyDict, ServeTime).token}

\* The request bodies the model sends.  UserCreate.full_name is optional
\* (None when left out).  extra: the members of the JSON body that
\* UserCreate does not declare; the last body asks for an inactive
\* superuser.
UserCreate(email, username, full_name) ==
    [email |-> email, username |-> username, password |-> <<1>>,
     full_name |-> full_name, token |-> AbsentToken, extra |-> EmptyDict]
RegisterInputs ==
    {UserCreate("a@x.com", "a", "Test User"), UserCreate("a@x.com", "b", "Test User"),
     UserCreate("b@x.com", "a", "Test User"), UserCreate("a@x.com", "a", None),
     [UserCreate("b@x.com", "a", "Test User") EXCEPT
         !.password = <<2>>,
         !.extra = [k \in {"is_active", "is_superuser"} |-> k = "is_superuser"]]}
LoginInputs ==
    [email : {"-"}, username : {"a"}, password : Passwords,
     full_name : {None}, token : {AbsentToken}, extra : {EmptyDict}]
TokenInputs(tokens) ==
    [email : {"-"}, username : {"-"}, password : {<<>>},
     full_name : {None}, token : tokens, extra : {EmptyDict}]

InputsOf(rt) ==
    CASE rt = "register" -> RegisterInputs
      [] rt = "login" -> LoginInputs
      [] rt = "me" -> TokenInputs({AbsentToken,
              create_access_token([k \in {"sub"} |-> JsonStr("a")], ServeTime).token})
      [] rt = "users" -> TokenInputs(Tokens)
      [] OTHER -> {NoInput}

(* ------------------------------ startup ------------------------------- *)

\* Module import of backend.config, which backend.database.connection
\* imports at its top: settings = Settings(), then
\* settings = _apply_app_config(settings).
LoadConfig(p) ==
    /\ phase[p] = "start"
    /\ settings' = apply_app_config(Settings(config.env), load_app_config(config.file))
    /\ phase' = [phase EXCEPT ![p] = "init"]
    /\ UNCHANGED <<authVars, loadVars, dbUp, dirs, engine, constructed, startupLog,
                   pool, users, nextId, reqVars>>

\* Module import of backend.database.connection (through backend.main):
\* db_engine = DatabaseFactory.create_engine().  A ValueError raised here
\* ends the import, and with it the process, before the application object
\* exists.
ImportApp(p) ==
    /\ phase[p] = "init"
    /\ LET res == create_engine(settings) IN
         /\ dirs' = dirs \cup res.made
         /\ constructed' = [constructed EXCEPT ![p] = Len(res.handles)]
         /\ IF res.raised
            THEN /\ phase' = [phase EXCEPT ![p] = "crashed"]
                 /\ UNCHANGED engine
            ELSE /\ phase' = [phase EXCEPT ![p] = "imported"]
                 /\ engine' = [engine EXCEPT ![p] = res.handles[1]]
    /\ UNCHANGED <<authVars, loadVars, settings, dbUp, startupLog, pool, users, nextId, reqVars>>

\* startup_event: Base.metadata.create_all for a relational engine, inside
\* try/except Exception that logs the error; then the server accepts requests.
startup_event(p) ==
    /\ phase[p] = "imported"
    /\ startupLog' = [startupLog EXCEPT ![p] =
          IF Lower(settings.database_type) # MONGODB /\ IsEngine(engine[p])
          THEN IF dbUp THEN "Database tables initialized"
                       ELSE "Error initializing database tables"
          ELSE "-"]
    /\ phase' = [phase EXCEPT ![p] = "serving"]
    /\ UNCHANGED <<authVars, loadVars, settings, dbUp, dirs, engine, constructed, pool, users, nextId, reqVars>>

\* No process has built its engine, no request is in flight, the store is
\* empty.
InitIdle ==
    /\ engine = [p \in Procs |-> NoEngine]
    /\ constructed = [p \in Procs |-> 0]
    /\ startupLog = [p \in Procs |-> "-"]
    /\ pool = [p \in Procs |-> {}]
    /\ users = {}
    /\ nextId = 1
    /\ proc = [r \in Reqs |-> 0]
    /\ pc = [r \in Reqs |-> "idle"]
    /\ route = [r \in Reqs |-> "-"]
    /\ inp = [r \in Reqs |-> NoInput]
    /\ handles = [r \in Reqs |-> <<>>]
    /\ conn = [r \in Reqs |-> 0]
    /\ attempts = [r \in Reqs |-> 0]
    /\ resp = [r \in Reqs |-> NoResp]
    /\ call = NoCall
    /\ background = [p \in Procs |-> {}]

\* The settings are loaded (from the environment alone) in every process.
InitCommon ==
    /\ phase = [p \in Procs |-> "init"]
    /\ config = [env |-> settings.database_type, file |-> NoAppConfigFile]
    /\ InitIdle

\* The factory and the startup hook alone, over the whole settings space.
InitFactory ==
    /\ settings \in SettingsSpace
    /\ dbUp \in BOOLEAN
    /\ dirs \in {{<<".">>}, {<<".">>, <<".", "data">>}}
    /\ utcnow = ServeTime
    /\ InitCommon

NextFactory ==
    \E p \in Procs : ImportApp(p) \/ startup_event(p)

SpecFactory == InitFactory /\ [][NextFactory]_vars

\* Configuration loading, the factory and the startup hook, over the
\* configurations of ConfigSpace.  Before backend.config is imported there
\* is no settings object; the variable holds the class defaults.
InitConfig ==
    /\ config \in ConfigSpace
    /\ settings = DefaultSettings
    /\ phase = [p \in Procs |-> "start"]
    /\ dbUp = TRUE
    /\ dirs = {<<".">>}
    /\ utcnow = ServeTime
    /\ InitIdle

NextConfig ==
    \E p \in Procs : LoadConfig(p) \/ ImportApp(p) \/ startup_event(p)

SpecConfig == InitConfig /\ [][NextConfig]_vars

(* ------------------------- AuthService calls -------------------------- *)

MaxClock == 32

\* The claims dictionaries handed to create_access_token.
ClaimKeys == {"sub", "email", "exp"}
ClaimValues(k) ==
    CASE k = "sub" -> {JsonStr("testuser"), JsonInt(7)}
      [] k = "email" -> {JsonStr("test@example.com")}
      [] OTHER -> {JsonInt(5)}
ClaimsDicts ==
    UNION {{d \in [K -> UNION {ClaimValues(k) : k \in K}] :
              \A k \in K : d[k] \in ClaimValues(k)} : K \in SUBSET ClaimKeys}

\* Strings that are no token of this application: text that is no JWT, and
\* a JWT signed with another key.
ForeignTokens ==
    {BadToken, jwt_encode([k \in {"sub"} |-> JsonStr("testuser")], "another-key")}

\* The passwords handed to the hashing methods: short ones, one of exactly
\* BcryptMaxBytes bytes, and two that extend it by one differing byte.
LongPassword == [i \in 1..BcryptMaxBytes |-> 1]
HashInputs ==
    Passwords \cup {LongPassword, LongPassword \o <<1>>, LongPassword \o <<2>>}

\* Time passes.
Tick ==
    /\ \E d \in {1, JwtAccessTokenExpireMinutes} :
         /\ utcnow + d <= MaxClock
         /\ utcnow' = utcnow + d
    /\ UNCHANGED <<call, loadVars, settings, dbUp, dirs, procVars, pool, users, nextId, reqVars>>

\* token = AuthService.create_access_token(data)
CallCreateAccessToken ==
    /\ \E data \in ClaimsDicts :
         LET res == create_access_token(data, utcnow) IN
         call' = [NoCall EXCEPT !.op = "create", !.data = data,
                                !.after = res.data, !.token = res.token]
    /\ UNCHANGED <<utcnow, loadVars, settings, dbUp, dirs, procVars, pool, users, nextId, reqVars>>

\* AuthService.decode_access_token(token) of the token created last
DecodeCreatedToken ==
    /\ call.op \in {"create", "roundtrip"}
    /\ call' = [call EXCEPT !.op = "roundtrip", !.at = utcnow,
                            !.payload = decode_access_token(call.token, utcnow)]
    /\ UNCHANGED <<utcnow, loadVars, settings, dbUp, dirs, procVars, pool, users, nextId, reqVars>>

\* AuthService.decode_access_token(token) of a string from elsewhere
DecodeForeignToken ==
    /\ \E token \in ForeignTokens :
         call' = [NoCall EXCEPT !.op = "decode", !.token = token,
                                !.payload = decode_access_token(token, utcnow)]
    /\ UNCHANGED <<utcnow, loadVars, settings, dbUp, dirs, procVars, pool, users, nextId, reqVars>>

\* hashed = AuthService.get_password_hash(password)
CallGetPasswordHash ==
    /\ \E password \in HashInputs :
         call' = [NoCall EXCEPT !.op = "hash", !.password = password,
                                !.hashed = get_password_hash(password)]
    /\ UNCHANGED <<utcnow, loadVars, settings, dbUp, dirs, procVars, pool, users, nextId, reqVars>>

\* AuthService.verify_password(candidate, hashed) against the hash made last
CallVerifyPassword ==
    /\ call.op \in {"hash", "verify"}
    /\ \E candidate \in HashInputs :
         call' = [call EXCEPT !.op = "verify", !.candidate = candidate,
                              !.verified = verify_password(candidate, call.hashed)]
    /\ UNCHANGED <<utcnow, loadVars, settings, dbUp, dirs, procVars, pool, users, nextId, reqVars>>

InitAuth ==
    /\ settings = DefaultSettings
    /\ dbUp = TRUE
    /\ dirs = {<<".">>}
    /\ utcnow = 0
    /\ InitCommon

NextAuth ==
    \/ Tick
    \/ CallCreateAccessToken
    \/ DecodeCreatedToken
    \/ DecodeForeignToken
    \/ CallGetPasswordHash
    \/ CallVerifyPassword

SpecAuth == InitAuth /\ [][NextAuth]_vars

(* ------------------------------ storage ------------------------------- *)

\* A stored identifier: the relational autoincrement integer, or the
\* ObjectId of a document, whose str() is its hexadecimal digits (OidLen of
\* them here, each 0..15).
OidDigits == {1, 10}
ObjectIds == [1..OidLen -> OidDigits]
IntId(n) == [t |-> "int", v |-> n]
StrId(oid) == [t |-> "str", v |-> oid]

RECURSIVE DecimalValue(_)
DecimalValue(ds) ==
    IF Len(ds) = 0 THEN 0
    ELSE 10 * DecimalValue(SubSeq(ds, 1, Len(ds) - 1)) + ds[Len(ds)]

\* The pre-check filter with AND in place of OR.
find_by_both(email, username) ==
    {u \in users : u.email = email /\ u.username = username}

\* User.email == email | User.username == username, and the $or filter
find_by_either(email, username) ==
    {u \in users : u.email = email \/ u.username = username}

\* User.username == username, and the {"username": username} filter
find_by_username(username) == {u \in users : u.username = username}

\* The unique indexes of the users table (Column(..., unique=True)): the
\* rows with which a new row (email, username) conflicts.
UniqueConflicts(email, username) ==
    {u \in users : u.email = email \/ u.username = username}

\* A DateTime column or field: NULL, or the time it was stamped with.
NullTime == [null |-> TRUE, at |-> 0]
Timestamp(t) == [null |-> FALSE, at |-> t]

\* A row whose id is read before the engine assigned it.
NewRowWithoutId(id, in) ==
    [id |-> IntId(0), email |-> in.email, username |-> in.username,
     hashed_password |-> get_password_hash(in.password),
     full_name |-> in.full_name, is_active |-> TRUE, is_superuser |-> FALSE,
     created_at |-> Timestamp(utcnow), updated_at |-> NullTime]

\* A row built from every member of the request body.
NewRowFromBody(id, in) ==
    [id |-> IntId(id), email |-> in.email, username |-> in.username,
     hashed_password |-> get_password_hash(in.password),
     full_name |-> in.full_name,
     is_active |-> IF "is_active" \in DOMAIN in.extra
                   THEN in.extra["is_active"] ELSE TRUE,
     is_superuser |-> IF "is_superuser" \in DOMAIN in.extra
                      THEN in.extra["is_superuser"] ELSE FALSE,
     created_at |-> Timestamp(utcnow), updated_at |-> NullTime]

\* The row the relational engine stores for User(email=, username=,
\* hashed_password=, full_name=): id from the autoincrement counter,
\* is_active and is_superuser from the column defaults, created_at from
\* server_default=func.now(); updated_at has onupdate=func.now() and no
\* default, so the INSERT leaves it NULL.
NewRow(id, in) ==
    [id |-> IntId(id), email |-> in.email, username |-> in.username,
     hashed_password |-> get_password_hash(in.password),
     full_name |-> in.full_name, is_active |-> TRUE, is_superuser |-> FALSE,
     created_at |-> Timestamp(utcnow), updated_at |-> NullTime]

\* user_doc after insert_one assigned its _id; created_at and updated_at
\* are datetime.utcnow() taken by the handler.
NewDoc(oid, in) ==
    [id |-> StrId(oid), email |-> in.email, username |-> in.username,
     hashed_password |-> get_password_hash(in.password),
     full_name |-> in.full_name, is_active |-> TRUE, is_superuser |-> FALSE,
     created_at |-> Timestamp(utcnow), updated_at |-> Timestamp(utcnow)]

(* --------------------------- response models -------------------------- *)

\* Validation of an `int` field: an int, or a string of decimal digits.
IsValidInt(x) == x.t = "int" \/ \A i \in 1..Len(x.v) : x.v[i] < 10
AsInt(x) == IF x.t = "int" THEN x.v ELSE DecimalValue(x.v)

\* UserResponse(id=, email=, username=, full_name=, is_active=): the model,
\* or a ValidationError (ok = FALSE).  id: int; full_name: str = None, so a
\* full_name passed as None does not validate.
UserResponse(id, email, username, full_name, is_active) ==
    IF IsValidInt(id) /\ full_name # None
    THEN [ok |-> TRUE, id |-> IntId(AsInt(id)), email |-> email, username |-> username,
          full_name |-> full_name, is_active |-> is_active]
    ELSE [ok |-> FALSE]

HTTPException(status, detail) == [status |-> status, detail |-> detail, body |-> NoBody]
\* ErrorHandlingMiddleware.dispatch on an exception out of the handler
InternalServerError == [status |-> 500, detail |-> "Internal server error", body |-> NoBody]
Answer(status, body) == [status |-> status, detail |-> "-", body |-> body]
credentials_exception == HTTPException(401, "Could not validate credentials")

(* --------------------------- connection pool -------------------------- *)

\* A pool that counts max_overflow twice.
PoolLimitOverflowTwice(e) ==
    IF e.kind = SQLITE THEN NumReqs ELSE e.pool_size + 2 * e.max_overflow

\* Connections the pool of engine e may have checked out at once:
\* pool_size + max_overflow for the networked engines; create_sqlite_engine
\* passes no limit.
PoolLimit(e) == IF e.kind = SQLITE THEN NumReqs ELSE e.pool_size + e.max_overflow

\* Borrow a connection from the pool whose checked-out connections are
\* `out`: an idle or a new connection, which is one that is not checked
\* out; a timeout (ok = FALSE) when `limit` are checked out.
Checkout(out, limit) ==
    IF Cardinality(out) < limit
    THEN LET c == Min((1..limit) \ out) IN [ok |-> TRUE, c |-> c, pool |-> out \cup {c}]
    ELSE [ok |-> FALSE, c |-> 0, pool |-> out]

\* A close that keeps the connection checked out.
CheckinLeaks(out, c) == out

\* Return connection c to the pool (c = 0: nothing to return).
Checkin(out, c) == out \ {c}

\* The connection request r's session uses for a statement: the one it
\* already holds, else one borrowed from its process's pool.
SessionConnection(r) ==
    IF conn[r] # 0
    THEN [ok |-> TRUE, c |-> conn[r], pool |-> pool[ProcOf(r)]]
    ELSE Checkout(pool[ProcOf(r)], PoolLimit(engine[ProcOf(r)]))

(* ---------------------------- get_database ---------------------------- *)

\* Session ids of the live sessions.
LiveSessions ==
    UNION {{handles[r][i].sid : i \in 1..Len(handles[r])} :
           r \in {q \in Reqs : Len(handles[q]) > 0 /\ IsSession(handles[q][1])}}

\* get_database yielding db_engine on both branches.
get_database_yields_engine(e, live) == e

\* get_database handing out one module-level session.
get_database_shared_session(e, live) ==
    IF IsEngine(e) THEN [family |-> "session", sid |-> 1] ELSE e

\* get_database up to its yield: SessionLocal() for a relational engine (a
\* new Session object, here the least id no live session has), else
\* db_engine itself.
get_database(e, live) ==
    IF IsEngine(e)
    THEN [family |-> "session", sid |-> Min((1..(2 * NumReqs)) \ live)]
    ELSE e

\* Depends(get_database, use_cache=False): get_users enters it twice.
DependencyCallsUncached(rt) ==
    IF rt = "users" THEN 2 ELSE IF rt \in DbRoutes THEN 1 ELSE 0

\* How many times get_database is entered while the dependencies of a route
\* are solved.  Depends(get_database) keeps the default use_cache=True, so
\* get_users, which declares it directly and through get_current_user, is
\* given one generator.
DependencyCalls(rt) == IF rt \in DbRoutes THEN 1 ELSE 0

\* The handles of a request that enters get_database n times.
OpenHandles(e, n) ==
    IF n = 0 THEN <<>>
    ELSE IF n = 1 THEN <<get_database(e, LiveSessions)>>
    ELSE LET h1 == get_database(e, LiveSessions) IN
         <<h1, get_database(e, LiveSessions \cup
                  (IF IsSession(h1) THEN {h1.sid} ELSE {}))>>

\* The `db` parameter of request r's handler.
db(r) == handles[r][1]

\* The event loop of process p is not inside a handler body.
LoopFree(p) == \A q \in Reqs : proc[q] = p => pc[q] # "checked"

\* Registrations admitted and not yet decided (caps the stored records).
PendingRegisters ==
    Cardinality({q \in Reqs : route[q] = "register" /\ pc[q] \in {"ready", "checked"}})

(* ------------------------------ requests ------------------------------ *)

Finish(r, response) ==
    /\ pc' = [pc EXCEPT ![r] = "exiting"]
    /\ resp' = [resp EXCEPT ![r] = response]

\* A request arrives at a serving process and its dependencies are solved
\* up to the handler call: oauth2_scheme (401 when the me/users request
\* carries no bearer token, before get_database is entered), then
\* get_database.
Arrive(r) ==
    /\ pc[r] = "idle"
    /\ \E p \in ProcChoices(r) : \E rt \in Routes : \E in \in InputsOf(rt) :
         /\ phase[p] = "serving"
         /\ LoopFree(p)
         /\ rt = "register" => Cardinality(users) + PendingRegisters < MaxUsers
         /\ proc' = [proc EXCEPT ![r] = p]
         /\ route' = [route EXCEPT ![r] = rt]
         /\ inp' = [inp EXCEPT ![r] = in]
         /\ IF rt \in {"me", "users"} /\ in.token.kind = "absent"
            THEN /\ Finish(r, HTTPException(401, "Not authenticated"))
                 /\ UNCHANGED handles
            ELSE /\ handles' = [handles EXCEPT ![r] =
                        OpenHandles(engine[p], DependencyCalls(rt))]
                 /\ pc' = [pc EXCEPT ![r] = "ready"]
                 /\ UNCHANGED resp
    /\ UNCHANGED <<authVars, loadVars, settings, dbUp, dirs, procVars, pool, users, nextId, conn, attempts>>

\* One storage round trip of request r through its handle: for a session
\* the statement runs on the session's connection; ok = FALSE when the
\* server cannot be reached or no connection can be borrowed.
RoundTrip(r) ==
    IF IsSession(db(r))
    THEN LET sc == SessionConnection(r) IN
         IF dbUp /\ sc.ok
         THEN [ok |-> TRUE, c |-> sc.c, pool |-> sc.pool]
         ELSE [ok |-> FALSE, c |-> conn[r], pool |-> pool[ProcOf(r)]]
    ELSE [ok |-> dbUp, c |-> conn[r], pool |-> pool[ProcOf(r)]]

KnownHandle(h) == IsSession(h) \/ IsMongoDatabase(h)

\* register, lines 145-159 and 180-192: the existence pre-check.
register_check(r) ==
    /\ pc[r] = "ready" /\ route[r] = "register"
    /\ LoopFree(ProcOf(r))
    /\ IF ~KnownHandle(db(r))
       THEN \* neither branch: the handler returns None
            /\ Finish(r, InternalServerError)
            /\ UNCHANGED <<pool, conn>>
       ELSE LET rt == RoundTrip(r) IN
            /\ pool' = [pool EXCEPT ![ProcOf(r)] = rt.pool]
            /\ conn' = [conn EXCEPT ![r] = rt.c]
            /\ IF ~rt.ok
               THEN Finish(r, InternalServerError)
               ELSE IF find_by_either(inp[r].email, inp[r].username) # {}
               THEN Finish(r, HTTPException(400, "Email or username already registered"))
               ELSE /\ pc' = [pc EXCEPT ![r] = "checked"]
                    /\ UNCHANGED resp
    /\ UNCHANGED <<authVars, loadVars, settings, dbUp, dirs, procVars, users, nextId, proc, route, inp, handles, attempts>>

\* register, lines 161-179 (relational) and 194-215 (document): the insert
\* and the response.
register_insert(r) ==
    /\ pc[r] = "checked" /\ route[r] = "register"
    /\ attempts' = [attempts EXCEPT ![r] = @ + 1]
    /\ IF IsSession(db(r))
       THEN IF UniqueConflicts(inp[r].email, inp[r].username) # {}
            THEN \* IntegrityError out of db.commit()
                 /\ Finish(r, InternalServerError)
                 /\ UNCHANGED <<users, nextId, pool, conn>>
            ELSE LET e == engine[ProcOf(r)]
                     row == NewRow(nextId, inp[r])
                     \* db.commit() returns the connection, db.refresh borrows one
                     released == Checkin(pool[ProcOf(r)], conn[r])
                     again == Checkout(released, PoolLimit(e))
                     out == UserResponse(row.id, row.email, row.username,
                                         row.full_name, row.is_active)
                 IN /\ users' = users \cup {row}
                    /\ nextId' = nextId + 1
                    /\ pool' = [pool EXCEPT ![ProcOf(r)] = again.pool]
                    /\ conn' = [conn EXCEPT ![r] = again.c]
                    /\ Finish(r, IF out.ok THEN Answer(201, out) ELSE InternalServerError)
       ELSE \E oid \in ObjectIds \ {u.id.v : u \in users} :
                LET doc == NewDoc(oid, inp[r])
                    out == UserResponse(doc.id, doc.email, doc.username,
                                        doc.full_name, doc.is_active)
                IN /\ users' = users \cup {doc}
                   /\ Finish(r, IF out.ok THEN Answer(201, out) ELSE InternalServerError)
                   /\ UNCHANGED <<nextId, pool, conn>>
    /\ UNCHANGED <<authVars, loadVars, settings, dbUp, dirs, procVars, proc, route, inp, handles>>

\* login whose lookup raises when no record matches (.one() for .first()).
LoginResponsesLookupRaises(found, in) ==
    IF found = {} THEN {InternalServerError}
    ELSE {IF ~verify_password(in.password, user.hashed_password)
          THEN HTTPException(401, "Incorrect username or password")
          ELSE IF ~user.is_active
          THEN HTTPException(403, "User account is inactive")
          ELSE Answer(200, [access_token |->
                              create_access_token([k \in {"sub"} |-> JsonStr(in.username)],
                                                  utcnow).token,
                            token_type |-> "bearer"]) : user \in found}

\* login testing is_active before the password.
LoginResponsesActiveFirst(found, in) ==
    IF found = {} THEN {HTTPException(401, "Incorrect username or password")}
    ELSE {IF ~user.is_active
          THEN HTTPException(403, "User account is inactive")
          ELSE IF ~verify_password(in.password, user.hashed_password)
          THEN HTTPException(401, "Incorrect username or password")
          ELSE Answer(200, [access_token |->
                              create_access_token([k \in {"sub"} |-> JsonStr(in.username)],
                                                  utcnow).token,
                            token_type |-> "bearer"]) : user \in found}

\* The responses login may give when the lookup returns `found` (.first()
\* and find_one return some matching record, or None).
LoginResponses(found, in) ==
    IF found = {} THEN {HTTPException(401, "Incorrect username or password")}
    ELSE {IF ~verify_password(in.password, user.hashed_password)
          THEN HTTPException(401, "Incorrect username or password")
          ELSE IF ~user.is_active
          THEN HTTPException(403, "User account is inactive")
          ELSE Answer(200, [access_token |->
                              create_access_token([k \in {"sub"} |-> JsonStr(in.username)],
                                                  utcnow).token,
                            token_type |-> "bearer"]) : user \in found}

\* login that stamps updated_at of the records it looked up.
login_stamping_record(r) ==
    /\ pc[r] = "ready" /\ route[r] = "login"
    /\ LoopFree(ProcOf(r))
    /\ IF ~KnownHandle(db(r))
       THEN /\ Finish(r, HTTPException(500, "Database configuration error"))
            /\ UNCHANGED <<pool, conn, users>>
       ELSE LET rt == RoundTrip(r) IN
            /\ pool' = [pool EXCEPT ![ProcOf(r)] = rt.pool]
            /\ conn' = [conn EXCEPT ![r] = rt.c]
            /\ IF ~rt.ok
               THEN /\ Finish(r, InternalServerError)
                    /\ UNCHANGED users
               ELSE /\ \E response \in LoginResponses(find_by_username(inp[r].username), inp[r]) :
                         Finish(r, response)
                    /\ users' = {IF u.username = inp[r].username
                                 THEN [u EXCEPT !.updated_at = Timestamp(utcnow)]
                                 ELSE u : u \in users}
    /\ UNCHANGED <<authVars, loadVars, settings, dbUp, dirs, procVars, nextId, proc, route, inp, handles, attempts>>

\* login
login(r) ==
    /\ pc[r] = "ready" /\ route[r] = "login"
    /\ LoopFree(ProcOf(r))
    /\ IF ~KnownHandle(db(r))
       THEN /\ Finish(r, HTTPException(500, "Database configuration error"))
            /\ UNCHANGED <<pool, conn>>
       ELSE LET rt == RoundTrip(r) IN
            /\ pool' = [pool EXCEPT ![ProcOf(r)] = rt.pool]
            /\ conn' = [conn EXCEPT ![r] = rt.c]
            /\ IF ~rt.ok
               THEN Finish(r, InternalServerError)
               ELSE \E response \in LoginResponses(find_by_username(inp[r].username), inp[r]) :
                        Finish(r, response)
    /\ UNCHANGED <<authVars, loadVars, settings, dbUp, dirs, procVars, users, nextId, proc, route, inp, handles, attempts>>

\* get_current_user after its storage round trip: the user dicts it may
\* return; empty when it raises credentials_exception.
CurrentUsers(token) ==
    LET payload == decode_access_token(token, utcnow) IN
    IF ~payload.valid \/ Sub(payload) = None THEN {}
    ELSE {[id |-> user.id, username |-> user.username, email |-> user.email,
           is_active |-> user.is_active] : user \in find_by_username(Sub(payload))}

\* Whether get_current_user reaches its storage lookup.
TokenNamesUser(token) ==
    LET payload == decode_access_token(token, utcnow) IN
    payload.valid /\ Sub(payload) # None

\* GET /auth/me: get_current_user, then the handler returns its result.
get_current_user_info(r) ==
    /\ pc[r] = "ready" /\ route[r] = "me"
    /\ LoopFree(ProcOf(r))
    /\ IF ~TokenNamesUser(inp[r].token) \/ ~KnownHandle(db(r))
       THEN /\ Finish(r, credentials_exception)
            /\ UNCHANGED <<pool, conn>>
       ELSE LET rt == RoundTrip(r) IN
            /\ pool' = [pool EXCEPT ![ProcOf(r)] = rt.pool]
            /\ conn' = [conn EXCEPT ![r] = rt.c]
            /\ IF ~rt.ok
               THEN Finish(r, InternalServerError)
               ELSE IF CurrentUsers(inp[r].token) = {}
               THEN Finish(r, credentials_exception)
               ELSE \E current_user \in CurrentUsers(inp[r].token) :
                        Finish(r, Answer(200, current_user))
    /\ UNCHANGED <<authVars, loadVars, settings, dbUp, dirs, procVars, users, nextId, proc, route, inp, handles, attempts>>

\* The list get_users builds: a UserResponse per stored record.
UserList == {UserResponse(u.id, u.email, u.username, u.full_name, u.is_active) : u \in users}

\* GET /users: get_current_user, then the listing on the same handle.
get_users(r) ==
    /\ pc[r] = "ready" /\ route[r] = "users"
    /\ LoopFree(ProcOf(r))
    /\ IF ~TokenNamesUser(inp[r].token) \/ ~KnownHandle(db(r))
       THEN /\ Finish(r, credentials_exception)
            /\ UNCHANGED <<pool, conn>>
       ELSE LET rt == RoundTrip(r) IN
            /\ pool' = [pool EXCEPT ![ProcOf(r)] = rt.pool]
            /\ conn' = [conn EXCEPT ![r] = rt.c]
            /\ IF ~rt.ok
               THEN Finish(r, InternalServerError)
               ELSE IF CurrentUsers(inp[r].token) = {}
               THEN Finish(r, credentials_exception)
               ELSE IF \E m \in UserList : ~m.ok
               THEN Finish(r, InternalServerError)
               ELSE Finish(r, Answer(200, [list |-> UserList]))
    /\ UNCHANGED <<authVars, loadVars, settings, dbUp, dirs, procVars, users, nextId, proc, route, inp, handles, attempts>>

\* A string built from parts is the sequence of its parts: "connected" is
\* <<"connected">>, f"error: {str(e)}" is <<"error: ", str(e)>>.
\* HealthResponse(status="healthy", environment=..., database=db_status, ...)
\* with the application information of the default configuration.
HealthResponse(db_status) ==
    Answer(200, [status |-> "healthy", environment |-> "development",
                 database |-> db_status, mode |-> "web"])

\* The health probe without its try/except: the exception leaves the handler.
health_probe_raised_uncaught(detail) == InternalServerError

\* except Exception as e: db_status = f"error: {str(e)}", then the return.
health_probe_raised(detail) == HealthResponse(<<"error: ", detail>>)

\* The probe passed: db_status = "connected", then the return.
health_probe_passed == HealthResponse(<<"connected">>)

\* GET /health: the probe goes to db_engine itself, inside try/except
\* Exception; a relational probe borrows a connection for SELECT 1 and
\* returns it when the `with` block ends.
health_check(r) ==
    /\ pc[r] = "ready" /\ route[r] = "health"
    /\ LoopFree(ProcOf(r))
    /\ LET e == engine[ProcOf(r)]
           co == Checkout(pool[ProcOf(r)], PoolLimit(e))
       IN IF IsMongoDatabase(e)
          THEN /\ Finish(r, IF dbUp THEN health_probe_passed
                            ELSE health_probe_raised("ServerSelectionTimeoutError"))
               /\ UNCHANGED pool
          ELSE IF dbUp /\ co.ok
          THEN /\ Finish(r, health_probe_passed)
               /\ pool' = [pool EXCEPT ![ProcOf(r)] = Checkin(co.pool, co.c)]
          ELSE /\ Finish(r, health_probe_raised(IF dbUp THEN "TimeoutError"
                                                ELSE "OperationalError"))
               /\ UNCHANGED pool
    /\ UNCHANGED <<authVars, loadVars, settings, dbUp, dirs, procVars, users, nextId, proc, route, inp, handles, conn, attempts>>

\* get_database without try/finally: db.close() is skipped when the handler
\* raised or the request was cancelled.
CloseHandlesUnlessRaised(r) ==
    /\ pool' = [pool EXCEPT ![ProcOf(r)] =
          IF Len(handles[r]) > 0 /\ IsSession(handles[r][1])
             /\ pc[r] = "exiting" /\ resp[r].status < 400
          THEN Checkin(@, conn[r])
          ELSE @]
    /\ conn' = [conn EXCEPT ![r] = 0]
    /\ proc' = [proc EXCEPT ![r] = 0]
    /\ handles' = [handles EXCEPT ![r] = <<>>]
    /\ pc' = [pc EXCEPT ![r] = "idle"]
    /\ route' = [route EXCEPT ![r] = "-"]
    /\ inp' = [inp EXCEPT ![r] = NoInput]
    /\ attempts' = [attempts EXCEPT ![r] = 0]
    /\ resp' = [resp EXCEPT ![r] = NoResp]

\* get_database after its yield, for every generator of the request:
\* `finally: db.close()` for a session, which returns its connection;
\* nothing for the document handle.  The request is over.
CloseHandles(r) ==
    /\ pool' = [pool EXCEPT ![ProcOf(r)] =
          IF Len(handles[r]) > 0 /\ IsSession(handles[r][1])
          THEN Checkin(@, conn[r])
          ELSE @]
    /\ conn' = [conn EXCEPT ![r] = 0]
    /\ proc' = [proc EXCEPT ![r] = 0]
    /\ handles' = [handles EXCEPT ![r] = <<>>]
    /\ pc' = [pc EXCEPT ![r] = "idle"]
    /\ route' = [route EXCEPT ![r] = "-"]
    /\ inp' = [inp EXCEPT ![r] = NoInput]
    /\ attempts' = [attempts EXCEPT ![r] = 0]
    /\ resp' = [resp EXCEPT ![r] = NoResp]

\* The request ends after its handler returned or raised: the response
\* goes out and the dependency's exit code runs.
Teardown(r) ==
    /\ pc[r] = "exiting"
    /\ CloseHandles(r)
    /\ UNCHANGED <<authVars, loadVars, settings, dbUp, dirs, procVars, users, nextId>>

\* The request is cancelled (client disconnect, upstream timeout) while it
\* waits for its handler: the generator is closed at its yield, which runs
\* the finally block.
Abort(r) ==
    /\ pc[r] = "ready"
    /\ LoopFree(ProcOf(r))
    /\ CloseHandles(r)
    /\ UNCHANGED <<authVars, loadVars, settings, dbUp, dirs, procVars, users, nextId>>

(* ---------------------------- specification --------------------------- *)

ServedDbTypes == {"sqlite", "postgresql", "mysql", "mongodb", "oracle"}

Init ==
    /\ settings \in {[DefaultSettings EXCEPT !.database_type = t] : t \in ServedDbTypes}
    /\ dbUp \in BOOLEAN
    /\ dirs = {<<".">>}
    /\ utcnow = ServeTime
    /\ InitCommon

Next ==
    \/ \E p \in Procs : ImportApp(p)
    \/ \E p \in Procs : startup_event(p)
    \/ \E r \in Reqs : Arrive(r)
    \/ \E r \in Reqs : register_check(r)
    \/ \E r \in Reqs : register_insert(r)
    \/ \E r \in Reqs : login(r)
    \/ \E r \in Reqs : get_current_user_info(r)
    \/ \E r \in Reqs : get_users(r)
    \/ \E r \in Reqs : health_check(r)
    \/ \E r \in Reqs : Teardown(r)
    \/ \E r \in Reqs : Abort(r)

Spec == Init /\ [][Next]_vars

(* --------------------------- a loaded pool ---------------------------- *)

\* Requests beyond those of Reqs, each holding the connection of its
\* session between its first statement and the exit of get_database.  They
\* are put on the processes of LoadedProcs.  Which connection of the pool a
\* request holds makes no difference: these requests are given the free
\* connection numbered highest and return them in the reverse order.
LoadedProcs == {p \in Procs : \A q \in Procs : p <= q}
Max(S) == CHOOSE x \in S : \A y \in S : y <= x

\* Another request of process p runs its first statement: its session
\* borrows a connection.
OtherBorrow(p) ==
    /\ phase[p] = "serving" /\ IsEngine(engine[p]) /\ dbUp
    /\ LoopFree(p)
    /\ LET limit == PoolLimit(engine[p])
           co == Checkout(pool[p], limit)
       IN /\ co.ok
          /\ LET c == Max((1..limit) \ pool[p]) IN
               /\ pool' = [pool EXCEPT ![p] = @ \cup {c}]
               /\ background' = [background EXCEPT ![p] = @ \cup {c}]
    /\ UNCHANGED <<authVars, config, settings, dbUp, dirs, procVars, users, nextId, reqVars>>

\* Another request of process p ends: `finally: db.close()` returns its
\* connection.
OtherReturn(p) ==
    /\ background[p] # {}
    /\ LET c == Min(background[p]) IN
         /\ pool' = [pool EXCEPT ![p] = Checkin(@, c)]
         /\ background' = [background EXCEPT ![p] = @ \ {c}]
    /\ UNCHANGED <<authVars, config, settings, dbUp, dirs, procVars, users, nextId, reqVars>>

\* The networked relational engines, their server reachable, under login,
\* me, users and health traffic against the empty store.
InitPool ==
    /\ settings \in {[DefaultSettings EXCEPT !.database_type = t] :
                        t \in {"postgresql", "mysql"}}
    /\ dbUp = TRUE
    /\ dirs = {<<".">>}
    /\ utcnow = ServeTime
    /\ InitCommon

NextPool ==
    \/ \E p \in Procs : ImportApp(p)
    \/ \E p \in Procs : startup_event(p)
    \/ \E r \in Reqs : Arrive(r)
    \/ \E r \in Reqs : login(r)
    \/ \E r \in Reqs : get_current_user_info(r)
    \/ \E r \in Reqs : get_users(r)
    \/ \E r \in Reqs : health_check(r)
    \/ \E r \in Reqs : Teardown(r)
    \/ \E r \in Reqs : Abort(r)
    \/ \E p \in LoadedProcs : OtherBorrow(p)
    \/ \E p \in LoadedProcs : OtherReturn(p)

SpecPool == InitPool /\ [][NextPool]_vars

(* ------------------------- deactivated accounts ----------------------- *)

\* An administrator deactivates the account of stored record u, directly in
\* the store (no route writes is_active).
Deactivate(u) ==
    /\ u \in users /\ u.is_active
    /\ users' = (users \ {u}) \cup {[u EXCEPT !.is_active = FALSE]}
    /\ UNCHANGED <<authVars, loadVars, settings, dbUp, dirs, procVars, pool, nextId, reqVars>>

\* SQLite and MongoDB, the server reachable.
InitAdmin ==
    /\ settings \in {[DefaultSettings EXCEPT !.database_type = t] :
                        t \in {"sqlite", "mongodb"}}
    /\ dbUp = TRUE
    /\ dirs = {<<".">>}
    /\ utcnow = ServeTime
    /\ InitCommon

NextAdmin ==
    \/ Next
    \/ \E u \in users : Deactivate(u)

SpecAdmin == InitAdmin /\ [][NextAdmin]_vars

(* ------------------------------- claims ------------------------------- *)

InFlight(r) == pc[r] # "idle"
Relational(p) == IsEngine(engine[p])
RequestsOf(p) == {r \in Reqs : proc[r] = p}

\* C1: after any interleaving of register requests no two stored user
\* records share an email and no two share a username, on the relational
\* backends and on MongoDB alike.
UniqueEmailAndUsername ==
    \A u1 \in users : \A u2 \in users :
        (u1.email = u2.email \/ u1.username = u2.username) => u1 = u2

\* C2: every session get_database opened for a request is closed when the
\* request ends, on every exit path (handler return, HTTPException or other
\* exception, cancellation): a request slot that is over holds no handle and
\* no connection, the connections checked out of a pool are exactly those
\* held by the sessions of requests still in flight, and a process with no
\* request in flight has no connection checked out.
SessionClosedOnEveryExit ==
    /\ \A r \in Reqs : ~InFlight(r) => handles[r] = <<>> /\ conn[r] = 0
    /\ \A p \in Procs :
         /\ pool[p] = {conn[r] : r \in {q \in RequestsOf(p) : conn[q] # 0}}
         /\ (\A r \in RequestsOf(p) : ~InFlight(r)) => pool[p] = {}

\* C2 witness: a relational process that has served a registration (a row
\* is stored) and has no request in flight.
RelationalIdleAfterServing ==
    /\ Relational(1)
    /\ users # {}
    /\ \A r \in Reqs : ~InFlight(r)

\* C3: while a request whose route declares get_database is handled (from
\* the handler's call to the end of the request) exactly one handle is live
\* for it, also for GET /users, which declares the dependency twice; no
\* request ever has more than one handle or more than one pooled
\* connection, and none is left once the request is over.  (The health
\* check and a request refused by oauth2_scheme never enter get_database.)
OneHandlePerRequest ==
    /\ \A r \in Reqs :
         /\ Len(handles[r]) <= 1
         /\ (InFlight(r) /\ route[r] \in DbRoutes
               /\ ~(pc[r] = "exiting" /\ inp[r].token.kind = "absent"
                      /\ route[r] \in {"me", "users"}))
            => Len(handles[r]) = 1
         /\ ~InFlight(r) => Len(handles[r]) = 0 /\ conn[r] = 0
    /\ \A p \in Procs :
         Cardinality(pool[p]) = Cardinality({r \in RequestsOf(p) : conn[r] # 0})

\* C3 witness: GET /users answered 200 on a relational backend, its one
\* session holding a connection.
UsersListedOnOneSession ==
    \E r \in Reqs :
        /\ route[r] = "users" /\ pc[r] = "exiting" /\ resp[r].status = 200
        /\ Len(handles[r]) = 1 /\ IsSession(handles[r][1]) /\ conn[r] # 0

\* C4: on a relational engine two requests in flight at the same time never
\* hold the same session, nor (in one process, whose pool they share) the
\* same pooled connection.
NoSharedSessionOrConnection ==
    \A r1 \in Reqs : \A r2 \in Reqs \ {r1} :
        (Len(handles[r1]) > 0 /\ Len(handles[r2]) > 0
           /\ IsSession(handles[r1][1]) /\ IsSession(handles[r2][1]))
        => /\ handles[r1][1].sid # handles[r2][1].sid
           /\ (proc[r1] = proc[r2] /\ conn[r1] # 0) => conn[r1] # conn[r2]

\* C4 witness: two requests of one process, each session holding a
\* connection.
TwoSessionsHoldConnections ==
    \E r1 \in Reqs : \E r2 \in Reqs \ {r1} :
        /\ proc[r1] = proc[r2]
        /\ conn[r1] # 0 /\ conn[r2] # 0
        /\ IsSession(handles[r1][1]) /\ IsSession(handles[r2][1])

\* C5: create_engine returns exactly one handle of the requested kind for
\* sqlite, postgresql, mysql and mongodb (compared after lower()): a
\* relational engine for the SQL kinds, a MongoDB database handle for
\* mongodb; for any other string it raises and constructs no handle.
FactoryBuildsRequestedKind ==
    \A p \in Procs :
        phase[p] # "init" =>
            LET t == Lower(settings.database_type) IN
            IF t \in {"sqlite", "postgresql", "mysql", "mongodb"}
            THEN /\ phase[p] # "crashed"
                 /\ constructed[p] = 1
                 /\ engine[p].kind = t
                 /\ engine[p].family = (IF t = "mongodb" THEN "document" ELSE "relational")
            ELSE /\ phase[p] = "crashed"
                 /\ constructed[p] = 0
                 /\ engine[p] = NoEngine

\* C5 witness: the factory was called with an unrecognized kind.
UnrecognizedKindRaised ==
    /\ settings.database_type = "oracle"
    /\ phase[1] = "crashed"

\* C6: an unrecognized backend kind fails at startup: the process never
\* comes to serve and no handler runs; and at request time no handler is
\* ever given a handle of neither family, so the "Database configuration
\* error" fallback is never taken.
UnrecognizedKindFailsAtStartup ==
    /\ Lower(settings.database_type) \notin {"sqlite", "postgresql", "mysql", "mongodb"}
       => /\ \A p \in Procs : phase[p] \in {"init", "crashed"}
          /\ \A r \in Reqs : ~InFlight(r)
    /\ \A r \in Reqs :
         /\ Len(handles[r]) > 0 => KnownHandle(handles[r][1])
         /\ resp[r] # HTTPException(500, "Database configuration error")

\* C6 witness: every process configured with an unrecognized kind has
\* ended at import.
AllCrashedAtImport ==
    /\ settings.database_type = "oracle"
    /\ \A p \in Procs : phase[p] = "crashed"

\* C7: if the database is unreachable when the process starts, the process
\* does not go on to serve requests.
StartupConnectFailureIsFatal ==
    ~dbUp => \A p \in Procs : phase[p] # "serving"

\* C8: a register request whose email and username are both unused when it
\* inserts succeeds (201) and stores one new record with that username,
\* which a lookup by username then finds; and a login that finds a record
\* with the submitted username and password answers 200.
RegisterUnusedStep ==
    \A r \in Reqs :
        /\ (pc[r] = "checked" /\ pc'[r] = "exiting"
              /\ \A u \in users : u.email # inp[r].email /\ u.username # inp[r].username)
           => /\ resp'[r].status = 201
              /\ \E u \in users' \ users :
                   /\ users' = users \cup {u}
                   /\ u.username = inp[r].username /\ u.email = inp[r].email
        /\ (route[r] = "login" /\ pc[r] = "ready" /\ pc'[r] = "exiting" /\ dbUp
              /\ find_by_username(inp[r].username) # {}
              /\ (\A u \in find_by_username(inp[r].username) :
                    verify_password(inp[r].password, u.hashed_password)))
           => resp'[r].status = 200

RegisterUnusedSucceeds == [][RegisterUnusedStep]_vars

\* C9: a register request whose email or username equals that of a stored
\* record is rejected by the pre-check with 400 before any insert is
\* attempted, and the stored records are unchanged (so the number of
\* records with that username, and with that email, stays what it was).
DuplicateRejectedStep ==
    \A r \in Reqs :
        (route[r] = "register" /\ pc[r] = "ready" /\ pc'[r] \in {"checked", "exiting"}
           /\ \E u \in users : u.email = inp[r].email \/ u.username = inp[r].username)
        => /\ pc'[r] = "exiting"
           /\ resp'[r].status = 400
           /\ attempts'[r] = 0
           /\ users' = users

DuplicateRejectedByPrecheck == [][DuplicateRejectedStep]_vars

\* C9 witness: a registration reusing a stored username with another email
\* was answered 400, and one record has that username.
DuplicateUsernameRejected ==
    \E r \in Reqs :
        /\ route[r] = "register" /\ pc[r] = "exiting" /\ resp[r].status = 400
        /\ attempts[r] = 0
        /\ Cardinality(find_by_username(inp[r].username)) = 1
        /\ \A u \in users : u.email # inp[r].email

\* C10: on a relational backend a registration answered 201 returns the
\* submitted username and email and the id of the stored row, a positive
\* integer handed out by the engine's counter; ids of distinct stored rows
\* are distinct.
RelationalRegisterResponse ==
    /\ \A r \in Reqs :
         (route[r] = "register" /\ pc[r] = "exiting" /\ resp[r].status = 201
            /\ Relational(proc[r]))
         => /\ resp[r].body.username = inp[r].username
            /\ resp[r].body.email = inp[r].email
            /\ resp[r].body.id.t = "int"
            /\ resp[r].body.id.v \in 1..(nextId - 1)
            /\ \E u \in users :
                 /\ u.id = resp[r].body.id
                 /\ u.username = inp[r].username /\ u.email = inp[r].email
    /\ (\E p \in Procs : Relational(p))
       => \A u1 \in users : \A u2 \in users : u1.id = u2.id => u1 = u2

\* C10 witness: two rows are stored and a registration has just been
\* answered 201.
SecondUserRegistered ==
    /\ Relational(1)
    /\ Cardinality(users) = 2
    /\ \E r \in Reqs : route[r] = "register" /\ pc[r] = "exiting" /\ resp[r].status = 201

\* C11: on MongoDB a registration (here one that sends every field) that
\* inserted its document answers 201 and returns the record under the
\* identifier the store generated, an opaque non-numeric string, the stored
\* document carrying created_at and updated_at.
MongoRegisterReturnsStringId ==
    \A r \in Reqs :
        (route[r] = "register" /\ pc[r] = "exiting" /\ attempts[r] = 1
           /\ inp[r].full_name # None
           /\ IsMongoDatabase(handles[r][1]))
        => /\ resp[r].status = 201
           /\ resp[r].body.id.t = "str"
           /\ \E doc \in users :
                /\ doc.id = resp[r].body.id
                /\ ~doc.created_at.null /\ ~doc.updated_at.null

\* C12: on both backend families every stored user record has created_at
\* and updated_at set from the moment it is inserted; neither is null.
TimestampsSetAtInsert ==
    \A u \in users : ~u.created_at.null /\ ~u.updated_at.null

\* C13: a lookup by a username that no record has is an empty result, not
\* a storage error: with the store reachable, login with such a username
\* answers 401 "Incorrect username or password", a token whose sub names no
\* record answers 401 on GET /auth/me and GET /users, and the stored
\* records are left as they were.
UnknownUsernameStep ==
    \A r \in Reqs :
        (pc[r] = "ready" /\ pc'[r] = "exiting" /\ dbUp /\ route[r] \in DbRoutes)
        => /\ (route[r] = "login" /\ \A u \in users : u.username # inp[r].username)
              => /\ resp'[r] = HTTPException(401, "Incorrect username or password")
                 /\ users' = users
           /\ (route[r] \in {"me", "users"}
                 /\ \A u \in users :
                      "sub" \in DOMAIN inp[r].token.claims
                        => u.username # inp[r].token.claims["sub"].v)
              => /\ resp'[r] = credentials_exception
                 /\ users' = users

UnknownUsernameIsCredentialFailure == [][UnknownUsernameStep]_vars

\* C13 witness: a login for "a" was answered 401 while the store, which is
\* reachable, holds a record of another username only.
UnknownLoginRefused ==
    \E r \in Reqs :
        /\ route[r] = "login" /\ pc[r] = "exiting" /\ resp[r].status = 401
        /\ dbUp /\ users # {}
        /\ \A u \in users : u.username # inp[r].username

\* C14: the health check answers 200 with status "healthy" whatever the
\* probe does: database is "connected" when the probe passes and
\* "error: <detail>" when it raises, and the process goes on serving.
HealthCheckStep ==
    \A r \in Reqs :
        (route[r] = "health" /\ pc[r] = "ready" /\ pc'[r] = "exiting")
        => /\ resp'[r].status = 200
           /\ resp'[r].body.status = "healthy"
           /\ IF dbUp /\ (Relational(proc[r]) =>
                    Cardinality(pool[proc[r]]) < PoolLimit(engine[proc[r]]))
              THEN resp'[r].body.database = <<"connected">>
              ELSE /\ Len(resp'[r].body.database) = 2
                   /\ resp'[r].body.database[1] = "error: "
           /\ phase' = phase
           /\ phase[proc[r]] = "serving"

HealthCheckNeverFails == [][HealthCheckStep]_vars

\* C14 witness: a health check reported a probe error on a relational
\* engine, and its process is serving.
HealthReportedError ==
    \E r \in Reqs :
        /\ route[r] = "health" /\ pc[r] = "exiting" /\ resp[r].status = 200
        /\ resp[r].body.database = <<"error: ", "OperationalError">>
        /\ phase[proc[r]] = "serving"

\* C15: with the store reachable, a login with the username of a stored
\* active record and the password that record was registered with answers
\* 200 with an access token and token_type "bearer".
RegisteredUserLogsInStep ==
    \A r \in Reqs :
        (route[r] = "login" /\ pc[r] = "ready" /\ pc'[r] = "exiting" /\ dbUp
           /\ \E u \in users :
                /\ u.username = inp[r].username /\ u.is_active
                /\ verify_password(inp[r].password, u.hashed_password))
        => /\ resp'[r].status = 200
           /\ resp'[r].body.token_type = "bearer"
           /\ resp'[r].body.access_token.kind = "jwt"

RegisteredUserLogsIn == [][RegisteredUserLogsInStep]_vars

\* C16: with the store reachable, GET /users answers 200 with a list
\* exactly when the bearer token decodes, has a sub and the sub is the
\* username of a stored record; otherwise (no token, an undecodable token,
\* no sub, a sub naming no record) it answers 401 without user data.
GetUsersStep ==
    \A r \in Reqs :
        (pc'[r] = "exiting" /\ pc[r] # "exiting" /\ route'[r] = "users" /\ dbUp)
        => IF /\ pc[r] = "ready"
              /\ \E u \in users :
                   LET payload == decode_access_token(inp[r].token, utcnow) IN
                   payload.valid /\ Sub(payload) = u.username
           THEN /\ resp'[r].status = 200
                /\ resp'[r].body = [list |-> UserList]
           ELSE /\ resp'[r].status = 401
                /\ resp'[r].body = NoBody

GetUsersExactlyWithValidToken == [][GetUsersStep]_vars

DecodeInvalidReturnsNone ==
    /\ ~call.payload.raised
    /\ (call.op \in {"decode", "roundtrip"}
          /\ (\/ call.token.kind # "jwt"
              \/ call.token.key # JwtSecretKey
              \/ call.token.claims["exp"].v < call.at))
       => ~call.payload.valid /\ call.payload.claims = EmptyDict

\* C18 witness: an expired token of this application was decoded.
ExpiredTokenDecoded ==
    /\ call.op = "roundtrip"
    /\ call.token.key = JwtSecretKey
    /\ call.token.claims["exp"].v < call.at
    /\ ~call.payload.valid

\* C19: the hash differs from the password, the password
\* verifies against its hash, and every other password does not.
HashVerifiesOnlyItsPassword ==
    /\ call.op \in {"hash", "verify"} => call.hashed # call.password
    /\ call.op = "verify" => (call.verified <=> call.candidate = call.password)

\* C19, within bcrypt's limit: the hash differs from the password and the
\* password verifies against its hash; a different candidate is refused
\* when it differs from the password within the first 72 bytes (so always
\* when both are at most 72 bytes long).
HashVerifiesUpToBcryptLimit ==
    /\ call.op \in {"hash", "verify"} => call.hashed # call.password
    /\ call.op = "verify" =>
         /\ call.candidate = call.password => call.verified
         /\ (Len(call.candidate) <= BcryptMaxBytes /\ Len(call.password) <= BcryptMaxBytes)
            => (call.verified <=> call.candidate = call.password)
         /\ (\E i \in 1..BcryptMaxBytes :
               i \in DOMAIN call.candidate /\ i \in DOMAIN call.password
                 /\ call.candidate[i] # call.password[i])
            => ~call.verified

\* C19, within bcrypt's limit: a wrong password of the same length was
\* refused.
WrongPasswordRefused ==
    /\ call.op = "verify"
    /\ call.password = <<1>> /\ call.candidate = <<2>>
    /\ ~call.verified

\* C20: the engine handle of a process, once constructed, is never
\* replaced, and every dispatch agrees with it: the handle get_database
\* gave a request is a session exactly when the engine is relational and
\* the document database itself otherwise, so the handler's isinstance
\* branch and the health probe's branch are those of the engine's family;
\* no handler is given a handle of neither family and none answers
\* "Database configuration error".
HandlerBranch(h) ==
    IF IsSession(h) THEN "relational"
    ELSE IF IsMongoDatabase(h) THEN "document" ELSE "neither"

ProbeBranch(e) == IF IsMongoDatabase(e) THEN "document" ELSE "relational"

DispatchConsistent ==
    /\ \A p \in Procs :
         phase[p] \in {"imported", "serving"} => ProbeBranch(engine[p]) = engine[p].family
    /\ \A r \in Reqs :
         /\ \A i \in 1..Len(handles[r]) :
              /\ HandlerBranch(handles[r][i]) = engine[proc[r]].family
              /\ IsMongoDatabase(handles[r][i]) => handles[r][i] = engine[proc[r]]
         /\ resp[r] # HTTPException(500, "Database configuration error")

EngineKindStep ==
    /\ DispatchConsistent
    /\ DispatchConsistent'
    /\ \A p \in Procs : phase[p] # "init" => engine'[p] = engine[p]

EngineKindFixedAndDispatchConsistent == [][EngineKindStep]_vars

\* C20 witness: on a relational engine a login ran its relational branch
\* and answered 200 while the other request of the process is in flight.
RelationalLoginServed ==
    \E r \in Reqs :
        /\ route[r] = "login" /\ pc[r] = "exiting" /\ resp[r].status = 200
        /\ Relational(proc[r]) /\ HandlerBranch(handles[r][1]) = "relational"
        /\ \E q \in Reqs \ {r} : proc[q] = proc[r] /\ InFlight(q)

\* The kind the configuration asks for: database.type of a readable
\* app_config.json when it has one, else DATABASE_TYPE, else "sqlite".
ConfiguredKind ==
    LET f == config.file IN
    IF f.exists /\ f.parses /\ "database" \in DOMAIN f.json
       /\ "type" \in DOMAIN f.json["database"]
    THEN f.json["database"]["type"]
    ELSE IF config.env = "None" THEN "sqlite" ELSE config.env

FactoryReadsFinalKindStep ==
    \A p \in Procs :
        /\ (phase[p] = "init" /\ phase'[p] # "init") =>
              /\ settings.database_type = ConfiguredKind
              /\ IF Lower(ConfiguredKind) \in DatabaseType
                 THEN /\ phase'[p] = "imported"
                      /\ engine'[p].kind = Lower(ConfiguredKind)
                 ELSE phase'[p] = "crashed"
        /\ phase[p] # "start" => settings' = settings

\* C22: the kind the factory builds is the final configured one: the
\* settings are loaded, with database.type of app_config.json overriding
\* the environment's value, before create_engine runs, and the settings do
\* not change once a process has loaded them.
FactoryReadsFinalKind == [][FactoryReadsFinalKindStep]_vars

\* C22 witness: app_config.json overrode the environment's kind and the
\* process serves with the engine of the overriding kind.
OverrideDecidedEngine ==
    /\ config.env = "postgresql"
    /\ ConfiguredKind = "mongodb"
    /\ phase[1] = "serving"
    /\ engine[1].kind = MONGODB

\* C23: the MongoDB connection string carries the credential segment
\* user:password@ exactly when both a user and a password are configured,
\* and is mongodb://host:port/database otherwise; the handle is the one
\* database named in the settings.
MongoUrlHasCredentialsIffBoth ==
    \A p \in Procs :
        (phase[p] \in {"imported", "serving"} /\ engine[p].kind = MONGODB) =>
            LET user == settings.mongodb_user
                password == settings.mongodb_password
            IN /\ IF user # "" /\ password # ""
                  THEN engine[p].url =
                         <<"mongodb://", user, ":", password, "@",
                           MongodbHost, ":", MongodbPort, "/", MongodbDb>>
                  ELSE engine[p].url =
                         <<"mongodb://", MongodbHost, ":", MongodbPort, "/", MongodbDb>>
               /\ engine[p].database = MongodbDb

\* C23 witness: a user without a password is configured and the process
\* serves with a client whose connection string has no credential segment.
MongoUserWithoutPassword ==
    /\ settings.mongodb_user = "admin"
    /\ settings.mongodb_password = ""
    /\ phase[1] = "serving"
    /\ engine[1].kind = MONGODB
    /\ Len(engine[1].url) = 6

SqliteDirectoryStep ==
    \A p \in Procs :
        (/\ phase[p] = "init" /\ phase'[p] # "init"
         /\ Lower(settings.database_type) = SQLITE) =>
            LET db_path == settings.sqlite_db_path
                db_dir == DirOf(db_path)
            IN /\ phase'[p] = "imported"
               /\ engine'[p].kind = SQLITE
               /\ db_dir \in dirs'
               /\ dirs \subseteq dirs'
               /\ db_dir \in dirs => dirs' = dirs
               /\ Len(db_path) = 1 => dirs' = dirs

\* C24: building the SQLite engine for a path whose parent directory does
\* not exist succeeds and the directory exists afterwards; a directory that
\* exists is left as it was; a path without a directory component creates
\* no directory.
SqliteParentDirectoryCreated == [][SqliteDirectoryStep]_vars

\* C24 witness: the engine was built for ./var/db/app.db, whose parent
\* directory did not exist at the start and exists now.
MissingParentCreated ==
    /\ settings.sqlite_db_path = <<".", "var", "db", "app.db">>
    /\ phase[1] = "imported"
    /\ engine[1].kind = SQLITE
    /\ <<".", "var", "db">> \in dirs

\* Request r is about to run the first statement of its session.
Borrows(r) ==
    /\ pc[r] = "ready" /\ route[r] \in DbRoutes
    /\ IsSession(db(r))
    /\ route[r] \in {"me", "users"} => TokenNamesUser(inp[r].token)

Networked(p) == IsEngine(engine[p]) /\ engine[p].kind \in {POSTGRESQL, MYSQL}

PoolExhaustionStep ==
    /\ \A r \in Reqs :
         (Borrows(r) /\ pc'[r] \notin {"ready", "idle"}
          /\ Networked(proc[r]) /\ dbUp) =>
            LET p == proc[r] IN
            IF Cardinality(pool[p]) >= 5 + 10
            THEN /\ resp'[r].status = 500
                 /\ conn'[r] = 0
                 /\ phase' = phase /\ engine' = engine
                 /\ pool' = pool /\ users' = users
                 /\ \A q \in Reqs \ {r} :
                      pc'[q] = pc[q] /\ resp'[q] = resp[q] /\ conn'[q] = conn[q]
            ELSE /\ conn'[r] \in pool'[p] \ pool[p]
                 /\ route[r] = "login" => resp'[r].status \in {200, 401, 403}
    /\ \A r \in Reqs :
         (conn[r] # 0 /\ conn'[r] = 0) =>
            pool'[proc[r]] = pool[proc[r]] \ {conn[r]}
    /\ \A p \in Procs :
         (background'[p] # background[p] /\ background'[p] \subseteq background[p]) =>
            Cardinality(pool'[p]) = Cardinality(pool[p]) - 1

\* C21: when the pool of a networked relational engine is exhausted, the
\* request whose session tries to borrow is answered 500 and nothing else
\* changes: the process keeps serving and the other requests keep what
\* they hold; every request that ends gives its connection back, and a
\* request that borrows while a connection is free is given one and served.
PoolExhaustionFailsOneRequest == [][PoolExhaustionStep]_vars

\* C21 witness: on one process a login was refused with 500 for want of a
\* connection, connections have been returned since, and another login
\* holds a connection and was served.
ServedAfterExhaustion ==
    \E r, q \in Reqs :
        /\ r # q
        /\ route[r] = "login" /\ pc[r] = "exiting"
        /\ route[q] = "login" /\ pc[q] = "exiting"
        /\ proc[r] = proc[q] /\ Networked(proc[r])
        /\ resp[r].status = 500 /\ conn[r] = 0
        /\ resp[q].status = 401 /\ conn[q] # 0
        /\ Cardinality(pool[proc[r]]) < 5 + 10

\* C26: on PostgreSQL and MySQL the connections checked out of a process's
\* pool never number more than 5 + 10 = 15.
PoolNeverExceedsLimit ==
    \A p \in Procs :
        (phase[p] = "serving" /\ Networked(p)) => Cardinality(pool[p]) <= 5 + 10

\* C26 witness: fifteen connections are checked out and a request that
\* tried to borrow a sixteenth was refused.
PoolFullAndBorrowRefused ==
    \E r \in Reqs :
        /\ route[r] \in DbRoutes /\ pc[r] = "exiting"
        /\ Networked(proc[r])
        /\ Cardinality(pool[proc[r]]) = 5 + 10
        /\ resp[r].status = 500 /\ conn[r] = 0

LoginChecksStep ==
    \A r \in Reqs :
        (/\ pc[r] = "ready" /\ route[r] = "login" /\ pc'[r] = "exiting"
         /\ KnownHandle(db(r)) /\ dbUp) =>
            LET named == {u \in users : u.username = inp[r].username}
                verifying == {u \in named :
                                 verify_password(inp[r].password, u.hashed_password)}
                answer == resp'[r]
            IN /\ answer.status \in {200, 401, 403}
               /\ named = {} => answer.status = 401
               /\ verifying = {} => answer.status = 401
               /\ answer.status = 401 => (named = {} \/ \E u \in named : u \notin verifying)
               /\ answer.status = 403 => \E u \in verifying : ~u.is_active
               /\ answer.status = 200 =>
                     /\ \E u \in verifying : u.is_active
                     /\ answer.body.access_token.kind = "jwt"
                     /\ answer.body.access_token.claims["sub"] = JsonStr(inp[r].username)
               /\ answer.status # 200 => answer.body = NoBody

\* C28: login issues a token only when a record with the submitted
\* username exists, the password verifies against its hash and the record
\* is active.  An unknown username or a wrong password is answered 401,
\* for an inactive account too; a correct password on an inactive account
\* is answered 403; neither answer carries a token.  The token's sub is the
\* submitted username.
LoginChecksInOrder == [][LoginChecksStep]_vars

\* C28 witness: a login with the correct password of a deactivated account
\* was answered 403.
InactiveAccountForbidden ==
    \E r \in Reqs :
        /\ route[r] = "login" /\ pc[r] = "exiting"
        /\ resp[r].status = 403
        /\ \E u \in users : u.username = inp[r].username /\ ~u.is_active

\* C29: every record registration stores is active and no superuser, on
\* the relational and on the document backend, whatever the request body
\* asked for, and its hashed_password is not the plain password of any
\* request body.
RegisteredActiveNotSuperuser ==
    \A u \in users :
        /\ u.is_active
        /\ ~u.is_superuser
        /\ \A in \in RegisterInputs : u.hashed_password # in.password

\* C29 witness: the record of the request body that asked for an inactive
\* superuser is stored.
BodyAskingForSuperuserStored ==
    \E u \in users :
        \E in \in RegisterInputs :
            /\ DOMAIN in.extra # {}
            /\ u.email = in.email /\ u.username = in.username
            /\ u.hashed_password = bcrypt(in.password)

ReadOnlyStep ==
    /\ \A r \in Reqs :
         (route[r] \in {"login", "me", "users", "health"} /\ pc'[r] # pc[r]) =>
            users' = users /\ nextId' = nextId
    /\ users' # users =>
         \E r \in Reqs :
            /\ route[r] = "register" /\ pc[r] = "checked" /\ pc'[r] = "exiting"
            /\ users \subseteq users'

\* C30: a login, a GET /auth/me, a GET /users and a health check leave the
\* stored records as they were, whatever they answer; the stored records
\* change only in a step of a register request.
OnlyRegisterWrites == [][ReadOnlyStep]_vars

\* C30 witness: with records stored, a login was answered 200 and a listing
\* was answered too.
ReadsAnsweredOverStoredRecords ==
    \E r, q \in Reqs :
        /\ users # {}
        /\ route[r] = "login" /\ pc[r] = "exiting" /\ resp[r].status = 200
        /\ route[q] = "users" /\ pc[q] = "exiting" /\ resp[q].status \in {200, 500}

\* What the relational branch of register answers for body `in` over the
\* stored records, once its pre-check has passed.
RelationalRegisterAnswer(in) ==
    IF UniqueConflicts(in.email, in.username) # {} THEN InternalServerError
    ELSE LET row == NewRow(nextId, in)
             out == UserResponse(row.id, row.email, row.username,
                                 row.full_name, row.is_active)
         IN IF out.ok THEN Answer(201, out) ELSE InternalServerError

BackendsAnswerAlikeStep ==
    \A r \in Reqs :
        (/\ route[r] = "register" /\ pc[r] = "checked" /\ pc'[r] = "exiting"
         /\ IsMongoDatabase(db(r))) =>
            LET relational == RelationalRegisterAnswer(inp[r]) IN
            /\ resp'[r].status = relational.status
            /\ resp'[r].status = 201 =>
                  /\ resp'[r].body.email = relational.body.email
                  /\ resp'[r].body.username = relational.body.username
                  /\ resp'[r].body.full_name = relational.body.full_name
                  /\ resp'[r].body.is_active = relational.body.is_active

\* C25: the backends are interchangeable: a register request on the
\* document backend is answered with the status, and the fields other than
\* id, that the relational backend gives for the same body over the same
\* stored records.
BackendsAnswerAlike == [][BackendsAnswerAlikeStep]_vars

RegisterAllOrNothingStep ==
    \A r \in Reqs :
        (route[r] = "register" /\ pc'[r] # pc[r]) =>
            /\ users' # users => (pc'[r] = "exiting" /\ resp'[r].status = 201)
            /\ (pc'[r] = "exiting" /\ resp'[r].status # 201) => users' = users

\* C27: registration is all-or-nothing on every backend: a register
\* request that is not answered 201 leaves the stored records as they were,
\* and a record is added only by a request that is answered 201.
RegisterAllOrNothing == [][RegisterAllOrNothingStep]_vars

====
